---- MODULE Spec2Model ----
(***************************************************************************)
(* InkFlow: the studio-operations server (src/server/routes.ts over        *)
(* src/server/storage.ts) and the client-side computations that feed it.  *)
(*                                                                         *)
(* Tables are functions from the ids of the rows they hold to the rows.    *)
(* Money is counted in cents: the decimal(10,2) text "3.50" is the integer *)
(* 350, which is what Number(), the subtraction, toString() and the        *)
(* column's rounding to two places compose to for amounts of that scale.   *)
(* Time is counted in ticks since the start of a month: TicksPerDay ticks  *)
(* make a calendar day and DaysPerMonth days make a calendar month.        *)
(***************************************************************************)
EXTENDS Integers, Sequences, FiniteSets, TLC

VARIABLES clients, artists, appointments, inventory, sales, now, last, calc, session

\* session tells whether the caller's session carries an authenticated identity
vars == <<clients, artists, appointments, inventory, sales, now, last, calc, session>>

----------------------------------------------------------------------------
(* Bounds of the model *)

MaxClients == 2
MaxArtists == 2
MaxAppointments == 2
MaxSales == 2
MaxApiSales == 1
MaxReferringRows == 1
MaxEnumRows == 1
MaxExtraFiles == 1
MaxItems == 2
MaxAmount == 2
MaxCalcAmount == 6
MaxStock == 2
TicksPerDay == 2
DaysPerMonth == 2
MaxMonths == 2

ClientIds == 1..MaxClients
ArtistIds == 1..MaxArtists
AppointmentIds == 1..MaxAppointments
SaleIds == 1..MaxSales
ItemIds == 1..MaxItems

\* amounts a caller of the API sends, in cents
Amounts == 0..MaxAmount
\* amounts typed into the sale form, in cents (the inputs carry no minimum)
FormAmounts == (0 - 2)..MaxCalcAmount

----------------------------------------------------------------------------
(* Helpers *)

\* a fresh server-generated id: gen_random_uuid() never repeats a live id
NewId(ids, table) == CHOOSE i \in ids \ DOMAIN table : \A j \in ids \ DOMAIN table : i <= j

\* an optional field of a request body: absent, or present with a value of S
Opt(f, S) == {<<>>} \cup {f :> v : v \in S}

\* `{ ...row, ...updates }`: the fields of updates override those of row
Merge(row, updates) ==
  [f \in DOMAIN row \cup DOMAIN updates |->
     IF f \in DOMAIN updates THEN updates[f] ELSE row[f]]

Has(body, f) == f \in DOMAIN body

Max(a, b) == IF a >= b THEN a ELSE b

NoBody == [id |-> 0]

\* the last request the server answered: what the handler read (the request's
\* body, or the clock) and its res.status(...).json(body)
Answered(op, request, status, body) ==
  [op |-> op, request |-> request, status |-> status, body |-> body]

Response(op, status, body) == Answered(op, NoBody, status, body)

NoResponse == Response("none", 0, NoBody)

\* the sale form before any submission. calc.status is 0 while nothing was
\* computed, 1 once the payload alone was computed, and otherwise the status
\* the form's request was answered with
NoCalc == [status |-> 0]

----------------------------------------------------------------------------
(* Sales: schema, storage and routes *)

PaymentStatuses == {"pending", "partial", "completed"}

\* paymentStatus is a varchar: any text is stored
StatusTexts == PaymentStatuses \cup {"refunded"}

\* the columns' defaults: deposit '0', remaining_balance '0',
\* payment_status 'pending', sale_date now()
SaleDefaults ==
  [deposit |-> 0, remainingBalance |-> 0, paymentStatus |-> "pending", saleDate |-> now]

\* insertSaleSchema.parse: the notNull columns without a default are required
insertSaleSchemaOk(body) ==
  /\ Has(body, "clientId")
  /\ Has(body, "artistId")
  /\ Has(body, "totalAmount")

\* the sales table without the constraint on appointment_id
SaleForeignKeysWithoutAppointment(row) ==
  /\ row.clientId \in DOMAIN clients
  /\ row.artistId \in DOMAIN artists

\* the foreign keys of the sales table, enforced by the datastore on write;
\* appointment_id is nullable, and a row without one carries no such field
SaleForeignKeysOk(row) ==
  /\ row.clientId \in DOMAIN clients
  /\ row.artistId \in DOMAIN artists
  /\ Has(row, "appointmentId") => row.appointmentId \in DOMAIN appointments

\* db.insert(sales).values(sale).returning(): the given values over the defaults
createSale(id, body) == Merge(SaleDefaults, Merge(body, [id |-> id]))

\* db.update(sales).set({ ...updates, updatedAt }): only the given columns change
updateSale(row, updates) == Merge(row, updates)

\* bodies a caller can send to POST /api/sales and PATCH /api/sales/:id
SaleBodies ==
  { c @@ a @@ t @@ d @@ r @@ p :
      c \in Opt("clientId", ClientIds), a \in Opt("artistId", ArtistIds),
      t \in Opt("totalAmount", Amounts), d \in Opt("deposit", Amounts),
      r \in Opt("remainingBalance", Amounts), p \in Opt("paymentStatus", StatusTexts) }

\* POST /api/sales: whether the handler reaches res.status(201)
PostSaleOk(body) ==
  /\ insertSaleSchemaOk(body)
  /\ SaleForeignKeysOk(createSale(0, body))

PostSaleResponse(body) ==
  IF PostSaleOk(body)
    THEN Response("POST /api/sales", 201, createSale(NewId(SaleIds, sales), body))
    ELSE Response("POST /api/sales", 400, NoBody)

PostSaleTable(body) ==
  IF PostSaleOk(body)
    THEN LET id == NewId(SaleIds, sales) IN (id :> createSale(id, body)) @@ sales
    ELSE sales

PostSaleBody(body) ==
  /\ DOMAIN sales # SaleIds
  /\ sales' = PostSaleTable(body)
  /\ last' = PostSaleResponse(body)
  /\ UNCHANGED <<clients, artists, appointments, inventory, now, calc, session>>

\* requests with bodies of the given set, while fewer than cap sales are stored
PostSale(bodies, cap) ==
  \E body \in bodies :
    /\ Cardinality(DOMAIN sales) < cap
    /\ PostSaleBody(body)

\* PATCH /api/sales/:id: an update that matches no row returns nothing and the
\* handler answers 200 with no body
PatchSaleOk(id, body) ==
  id \in DOMAIN sales => SaleForeignKeysOk(updateSale(sales[id], body))

PatchSaleResponse(id, body) ==
  IF PatchSaleOk(id, body)
    THEN Answered("PATCH /api/sales", [id |-> id], 200,
                  IF id \in DOMAIN sales THEN updateSale(sales[id], body) ELSE NoBody)
    ELSE Answered("PATCH /api/sales", [id |-> id], 400, NoBody)

PatchSaleTable(id, body) ==
  IF PatchSaleOk(id, body) /\ id \in DOMAIN sales
    THEN [sales EXCEPT ![id] = updateSale(sales[id], body)]
    ELSE sales

PatchSaleBody(id, body) ==
  /\ sales' = PatchSaleTable(id, body)
  /\ last' = PatchSaleResponse(id, body)
  /\ UNCHANGED <<clients, artists, appointments, inventory, now, calc, session>>

\* requests with bodies of the given set
PatchSaleOf(bodies) == \E id \in SaleIds, body \in bodies : PatchSaleBody(id, body)

PatchSale == PatchSaleOf(SaleBodies)

\* DELETE /api/sales/:id
DeleteSale ==
  \E id \in SaleIds :
    /\ sales' = [i \in DOMAIN sales \ {id} |-> sales[i]]
    /\ last' = Answered("DELETE /api/sales", [id |-> id], 204, NoBody)
    /\ UNCHANGED <<clients, artists, appointments, inventory, now, calc, session>>

----------------------------------------------------------------------------
(* Clients and artists: the columns the other tables and the dashboard read *)

ClientBodies ==
  { f @@ l : f \in Opt("firstName", {"Ada"}), l \in Opt("lastName", {"Lee"}) }

\* insertClientSchema.parse: first_name and last_name are notNull
insertClientSchemaOk(body) == Has(body, "firstName") /\ Has(body, "lastName")

createClient(id, body) == Merge(body, [id |-> id])

\* POST /api/clients
\* a column without the unique constraint
ClientEmailFree(row) == TRUE

\* email is unique: no stored client has the row's email. A row without the key
\* holds NULL in the column, and NULLs are distinct from each other
ClientEmailUnique(row) ==
  Has(row, "email") =>
    \A c \in DOMAIN clients : Has(clients[c], "email") => clients[c].email # row.email

\* POST /api/clients with the body given: the state it leaves in the tables and
\* in the last response
PostClientAnswer(body) ==
  IF insertClientSchemaOk(body) /\ ClientEmailUnique(createClient(0, body))
    THEN LET id == NewId(ClientIds, clients)
         IN /\ clients' = (id :> createClient(id, body)) @@ clients
            /\ last' = Response("POST /api/clients", 201, createClient(id, body))
    ELSE /\ clients' = clients
         /\ last' = Response("POST /api/clients", 400, NoBody)

PostClientOf(bodies) ==
  \E body \in bodies :
    /\ DOMAIN clients # ClientIds
    /\ PostClientAnswer(body)
    /\ UNCHANGED <<artists, appointments, inventory, sales, now, calc, session>>

PostClient == PostClientOf(ClientBodies)

\* db.update(clients).set({ ...updates, updatedAt }).returning()
updateClient(row, updates) == Merge(row, updates)

\* PATCH /api/clients/:id: an update that matches no row returns nothing and the
\* handler answers 200 with no body
PatchClient ==
  \E id \in ClientIds, body \in ClientBodies :
    /\ IF id \in DOMAIN clients
         THEN /\ clients' = [clients EXCEPT ![id] = updateClient(clients[id], body)]
              /\ last' = Answered("PATCH /api/clients", [id |-> id], 200,
                                  updateClient(clients[id], body))
         ELSE /\ clients' = clients
              /\ last' = Answered("PATCH /api/clients", [id |-> id], 200, NoBody)
    /\ UNCHANGED <<artists, appointments, inventory, sales, now, calc, session>>

\* the constraint of the appointments table alone
ClientReferencedByAppointments(id) ==
  \E a \in DOMAIN appointments : appointments[a].clientId = id

\* appointments.client_id and sales.client_id reference clients.id: the
\* datastore refuses to delete a client a row still points to
ClientReferenced(id) ==
  \/ \E a \in DOMAIN appointments : appointments[a].clientId = id
  \/ \E x \in DOMAIN sales : sales[x].clientId = id

\* DELETE /api/clients/:id
DeleteClient ==
  \E id \in ClientIds :
    /\ IF ClientReferenced(id)
         THEN /\ clients' = clients
              /\ last' = Answered("DELETE /api/clients", [id |-> id], 500, NoBody)
         ELSE /\ clients' = [i \in DOMAIN clients \ {id} |-> clients[i]]
              /\ last' = Answered("DELETE /api/clients", [id |-> id], 204, NoBody)
    /\ UNCHANGED <<artists, appointments, inventory, sales, now, calc, session>>

ArtistBodies ==
  { n @@ a : n \in Opt("name", {"Kim"}), a \in Opt("isActive", BOOLEAN) }

\* insertArtistSchema.parse: name is notNull
insertArtistSchemaOk(body) == Has(body, "name")

\* is_active defaults to true
createArtist(id, body) == Merge([isActive |-> TRUE], Merge(body, [id |-> id]))

\* POST /api/artists, with bodies of the given set
PostArtistOf(bodies) ==
  \E body \in bodies :
    /\ DOMAIN artists # ArtistIds
    /\ IF insertArtistSchemaOk(body)
         THEN LET id == NewId(ArtistIds, artists)
              IN /\ artists' = (id :> createArtist(id, body)) @@ artists
                 /\ last' = Response("POST /api/artists", 201, createArtist(id, body))
         ELSE /\ artists' = artists
              /\ last' = Response("POST /api/artists", 400, NoBody)
    /\ UNCHANGED <<clients, appointments, inventory, sales, now, calc, session>>

PostArtist == PostArtistOf(ArtistBodies)

\* db.update(artists).set({ ...updates, updatedAt }).returning()
updateArtist(row, updates) == Merge(row, updates)

\* PATCH /api/artists/:id
PatchArtist ==
  \E id \in ArtistIds, body \in ArtistBodies :
    /\ IF id \in DOMAIN artists
         THEN /\ artists' = [artists EXCEPT ![id] = updateArtist(artists[id], body)]
              /\ last' = Answered("PATCH /api/artists", [id |-> id], 200,
                                  updateArtist(artists[id], body))
         ELSE /\ artists' = artists
              /\ last' = Answered("PATCH /api/artists", [id |-> id], 200, NoBody)
    /\ UNCHANGED <<clients, appointments, inventory, sales, now, calc, session>>

ArtistReferenced(id) ==
  \/ \E a \in DOMAIN appointments : appointments[a].artistId = id
  \/ \E x \in DOMAIN sales : sales[x].artistId = id

\* DELETE /api/artists/:id
DeleteArtist ==
  \E id \in ArtistIds :
    /\ IF ArtistReferenced(id)
         THEN /\ artists' = artists
              /\ last' = Answered("DELETE /api/artists", [id |-> id], 500, NoBody)
         ELSE /\ artists' = [i \in DOMAIN artists \ {id} |-> artists[i]]
              /\ last' = Answered("DELETE /api/artists", [id |-> id], 204, NoBody)
    /\ UNCHANGED <<clients, appointments, inventory, sales, now, calc, session>>

----------------------------------------------------------------------------
(* Time *)

TicksPerMonth == DaysPerMonth * TicksPerDay

Times == 0..(MaxMonths * TicksPerMonth - 1)

\* setHours(0, 0, 0, 0)
StartOfDay(t) == t - (t % TicksPerDay)

\* new Date(year, month, 1)
StartOfMonth(t) == t - (t % TicksPerMonth)

\* the clock of the server advances
Tick ==
  /\ now + 1 \in Times
  /\ now' = now + 1
  /\ UNCHANGED <<clients, artists, appointments, inventory, sales, last, calc, session>>

----------------------------------------------------------------------------
(* Appointments *)

\* status defaults to 'scheduled', created_at and updated_at to now()
AppointmentDefaults == [status |-> "scheduled", createdAt |-> now, updatedAt |-> now]

\* the columns every insert schema omits
OmittedColumns == {"id", "createdAt", "updatedAt"}

\* a schema that passes every key of the body on
insertSchemaParseKeepingAll(body) == body

\* insertSchema.parse and .partial().parse return the keys of the schema: a key
\* of an omitted column is dropped from the body
insertSchemaParse(body) == [f \in DOMAIN body \ OmittedColumns |-> body[f]]

\* appointment_status: the values of the enum type
AppointmentStatuses ==
  {"scheduled", "confirmed", "in_progress", "completed", "cancelled", "no_show"}

\* a status column that takes any text
AppointmentStatusAnyText(body) == TRUE

\* status is a column of the enum type: a value outside the enum is refused
AppointmentStatusOk(body) == Has(body, "status") => body.status \in AppointmentStatuses

\* insertAppointmentSchema.parse: client_id, artist_id and scheduled_date are notNull
insertAppointmentSchemaOk(body) ==
  /\ Has(body, "clientId")
  /\ Has(body, "artistId")
  /\ Has(body, "scheduledDate")
  /\ AppointmentStatusOk(body)

\* insertAppointmentSchema.partial().parse: every column is optional
insertAppointmentSchemaPartialOk(body) == AppointmentStatusOk(body)

\* the constraint on artist_id alone
AppointmentForeignKeysArtistOnly(row) == row.artistId \in DOMAIN artists

\* client_id references clients.id and artist_id references artists.id
AppointmentForeignKeysOk(row) ==
  /\ row.clientId \in DOMAIN clients
  /\ row.artistId \in DOMAIN artists

\* db.insert(appointments).values(appointment).returning()
createAppointment(id, body) == Merge(AppointmentDefaults, Merge(body, [id |-> id]))

AppointmentBodies(dates) ==
  { c @@ a @@ d :
      c \in Opt("clientId", ClientIds), a \in Opt("artistId", ArtistIds),
      d \in Opt("scheduledDate", dates) }

\* POST /api/appointments: whether the handler reaches res.status(201)
PostAppointmentOk(body) ==
  /\ insertAppointmentSchemaOk(body)
  /\ AppointmentForeignKeysOk(createAppointment(0, insertSchemaParse(body)))

PostAppointmentBody(body) ==
  /\ DOMAIN appointments # AppointmentIds
  /\ IF PostAppointmentOk(body)
       THEN LET id == NewId(AppointmentIds, appointments)
            IN /\ appointments' =
                    (id :> createAppointment(id, insertSchemaParse(body))) @@ appointments
               /\ last' = Answered("POST /api/appointments", body, 201,
                                   createAppointment(id, insertSchemaParse(body)))
       ELSE /\ appointments' = appointments
            /\ last' = Answered("POST /api/appointments", body, 400, NoBody)
  /\ UNCHANGED <<clients, artists, inventory, sales, now, calc, session>>

PostAppointment(bodies) == \E body \in bodies : PostAppointmentBody(body)

\* requests with bodies of the given set, while fewer than cap appointments are stored
PostAppointmentUpTo(bodies, cap) ==
  \E body \in bodies :
    /\ Cardinality(DOMAIN appointments) < cap
    /\ PostAppointmentBody(body)

\* db.update(appointments).set({ ...updates, updatedAt }).returning()
updateAppointment(row, updates) == Merge(row, Merge(updates, [updatedAt |-> now]))

\* PATCH /api/appointments/:id: whether the handler reaches res.json
PatchAppointmentOk(id, body) ==
  /\ insertAppointmentSchemaPartialOk(body)
  /\ id \in DOMAIN appointments =>
       AppointmentForeignKeysOk(updateAppointment(appointments[id], insertSchemaParse(body)))

\* an update that matches no row returns nothing and the handler answers 200
\* with no body
PatchAppointmentBody(id, body) ==
  /\ IF PatchAppointmentOk(id, body)
       THEN IF id \in DOMAIN appointments
              THEN /\ appointments' =
                        [appointments EXCEPT ![id] = updateAppointment(appointments[id], insertSchemaParse(body))]
                   /\ last' = Answered("PATCH /api/appointments", [id |-> id, body |-> body], 200,
                                       updateAppointment(appointments[id], insertSchemaParse(body)))
              ELSE /\ appointments' = appointments
                   /\ last' = Answered("PATCH /api/appointments",
                                       [id |-> id, body |-> body], 200, NoBody)
       ELSE /\ appointments' = appointments
            /\ last' = Answered("PATCH /api/appointments", [id |-> id, body |-> body],
                            400, NoBody)
  /\ UNCHANGED <<clients, artists, inventory, sales, now, calc, session>>

PatchAppointment(bodies) ==
  \E id \in AppointmentIds, body \in bodies : PatchAppointmentBody(id, body)

\* sales.appointment_id references appointments.id: the datastore refuses to
\* delete an appointment a sale still points to
AppointmentReferenced(id) ==
  \E x \in DOMAIN sales : Has(sales[x], "appointmentId") /\ sales[x].appointmentId = id

\* DELETE /api/appointments/:id
DeleteAppointment ==
  \E id \in AppointmentIds :
    /\ IF AppointmentReferenced(id)
         THEN /\ appointments' = appointments
              /\ last' = Answered("DELETE /api/appointments", [id |-> id], 500, NoBody)
         ELSE /\ appointments' = [i \in DOMAIN appointments \ {id} |-> appointments[i]]
              /\ last' = Answered("DELETE /api/appointments", [id |-> id], 204, NoBody)
    /\ UNCHANGED <<clients, artists, inventory, sales, now, calc, session>>

----------------------------------------------------------------------------
(* Inventory *)

\* current_stock and min_level are integer columns: the schema sets no range
Stocks == (0 - 1)..MaxStock

\* current_stock and min_level default to 0
InventoryDefaults == [currentStock |-> 0, minLevel |-> 0]

\* inventory_category: the values of the enum type
InventoryCategories == {"ink", "needles", "supplies", "equipment", "aftercare"}

InventoryBodies ==
  { n @@ k @@ c @@ m :
      n \in Opt("name", {"Ink"}), k \in Opt("category", {"ink", "glitter"}),
      c \in Opt("currentStock", Stocks), m \in Opt("minLevel", Stocks) }

\* a category column that takes any text
InventoryCategoryAnyText(body) == TRUE

\* category is a column of the enum type: a value outside the enum is refused
InventoryCategoryOk(body) == Has(body, "category") => body.category \in InventoryCategories

\* insertInventorySchema.parse: name and category are notNull
insertInventorySchemaOk(body) ==
  /\ Has(body, "name")
  /\ Has(body, "category")
  /\ InventoryCategoryOk(body)

\* insertInventorySchema.partial().parse: every column is optional
insertInventorySchemaPartialOk(body) == InventoryCategoryOk(body)

createInventoryItem(id, body) == Merge(InventoryDefaults, Merge(body, [id |-> id]))

updateInventoryItem(row, updates) == Merge(row, updates)

\* POST /api/inventory
PostInventoryBody(body) ==
  /\ DOMAIN inventory # ItemIds
  /\ IF insertInventorySchemaOk(body)
       THEN LET id == NewId(ItemIds, inventory)
            IN /\ inventory' = (id :> createInventoryItem(id, body)) @@ inventory
               /\ last' = Response("POST /api/inventory", 201,
                                   createInventoryItem(id, body))
       ELSE /\ inventory' = inventory
            /\ last' = Response("POST /api/inventory", 400, NoBody)
  /\ UNCHANGED <<clients, artists, appointments, sales, now, calc, session>>

PostInventoryOf(bodies) == \E body \in bodies : PostInventoryBody(body)

PostInventory == PostInventoryOf(InventoryBodies)

\* requests with bodies of the given set, while fewer than cap items are stored
PostInventoryUpTo(bodies, cap) ==
  \E body \in bodies :
    /\ Cardinality(DOMAIN inventory) < cap
    /\ PostInventoryBody(body)

\* PATCH /api/inventory/:id: an update that matches no row returns nothing and
\* the handler answers 200 with no body
PatchInventoryBody(id, body) ==
  /\ IF insertInventorySchemaPartialOk(body)
       THEN IF id \in DOMAIN inventory
              THEN /\ inventory' =
                        [inventory EXCEPT ![id] = updateInventoryItem(inventory[id], body)]
                   /\ last' = Answered("PATCH /api/inventory", [id |-> id], 200,
                                       updateInventoryItem(inventory[id], body))
              ELSE /\ inventory' = inventory
                   /\ last' = Answered("PATCH /api/inventory", [id |-> id], 200, NoBody)
       ELSE /\ inventory' = inventory
            /\ last' = Answered("PATCH /api/inventory", [id |-> id], 400, NoBody)
  /\ UNCHANGED <<clients, artists, appointments, sales, now, calc, session>>

PatchInventoryOf(bodies) ==
  \E id \in ItemIds, body \in bodies : PatchInventoryBody(id, body)

PatchInventory == PatchInventoryOf(InventoryBodies)

\* DELETE /api/inventory/:id
DeleteInventory ==
  \E id \in ItemIds :
    /\ inventory' = [i \in DOMAIN inventory \ {id} |-> inventory[i]]
    /\ last' = Answered("DELETE /api/inventory", [id |-> id], 204, NoBody)
    /\ UNCHANGED <<clients, artists, appointments, sales, now, calc, session>>

\* the label the inventory page shows for an item
getStockStatus(currentStock, minLevel) ==
  IF currentStock = 0 THEN "Out of Stock"
  ELSE IF currentStock <= minLevel THEN "Low Stock"
  ELSE "In Stock"

----------------------------------------------------------------------------
(* Reads with relations. A list is modelled by the set of its records: the
   order of the rows is not part of the model *)

\* the row a left join yields for no match
Null == [id |-> 0]

\* leftJoin(table, eq(column, table.id))
LeftJoin(table, id) == IF id \in DOMAIN table THEN table[id] ELSE Null

\* the artist joined on the client_id column
AppointmentWithRelationsJoinedOnClient(row) ==
  Merge(row, [client |-> LeftJoin(clients, row.clientId),
              artist |-> LeftJoin(artists, row.clientId)])

\* { ...row.appointments, client: row.clients!, artist: row.artists! }
AppointmentWithRelations(row) ==
  Merge(row, [client |-> LeftJoin(clients, row.clientId),
              artist |-> LeftJoin(artists, row.artistId)])

\* storage.getAppointment: Null stands for undefined
getAppointment(id) ==
  IF id \in DOMAIN appointments THEN AppointmentWithRelations(appointments[id]) ELSE Null

getAppointments == { AppointmentWithRelations(appointments[a]) : a \in DOMAIN appointments }

\* { ...row.sales, client, artist, appointment: row.appointments || undefined }:
\* JSON drops the key of an undefined appointment
SaleWithRelations(row) ==
  LET joined == IF Has(row, "appointmentId")
                  THEN LeftJoin(appointments, row.appointmentId) ELSE Null
  IN Merge(Merge(row, [client |-> LeftJoin(clients, row.clientId),
                       artist |-> LeftJoin(artists, row.artistId)]),
           IF joined = Null THEN <<>> ELSE [appointment |-> joined])

\* storage.getSale: Null stands for undefined
getSale(id) == IF id \in DOMAIN sales THEN SaleWithRelations(sales[id]) ELSE Null

getSales == { SaleWithRelations(sales[x]) : x \in DOMAIN sales }

\* a GET of one row without the test for undefined
GetByIdAlwaysFound(op, id, row) ==
  /\ last' = Answered(op, [id |-> id], 200, row)
  /\ UNCHANGED <<clients, artists, appointments, inventory, sales, now, calc, session>>

\* a GET of one row: 404 when the storage returns undefined
GetById(op, id, row) ==
  /\ last' = Answered(op, [id |-> id], IF row = Null THEN 404 ELSE 200, row)
  /\ UNCHANGED <<clients, artists, appointments, inventory, sales, now, calc, session>>

\* a GET of a list
GetList(op, rows) ==
  /\ last' = Answered(op, NoBody, 200, [rows |-> rows])
  /\ UNCHANGED <<clients, artists, appointments, inventory, sales, now, calc, session>>

\* select().from(table).where(eq(table.id, id)): Null stands for undefined
getClient(id) == IF id \in DOMAIN clients THEN clients[id] ELSE Null

getClients == { clients[c] : c \in DOMAIN clients }

getArtist(id) == IF id \in DOMAIN artists THEN artists[id] ELSE Null

getArtists == { artists[a] : a \in DOMAIN artists }

getInventoryItem(id) == IF id \in DOMAIN inventory THEN inventory[id] ELSE Null

getInventory == { inventory[i] : i \in DOMAIN inventory }

\* where current_stock <= min_level
getLowStockItems ==
  { inventory[i] : i \in {j \in DOMAIN inventory :
                             inventory[j].currentStock <= inventory[j].minLevel} }

\* GET /api/clients/:id
GetClient == \E id \in ClientIds : GetById("GET /api/clients/:id", id, getClient(id))

\* GET /api/clients, without a search
GetClients == GetList("GET /api/clients", getClients)

\* GET /api/artists/:id
GetArtist == \E id \in ArtistIds : GetById("GET /api/artists/:id", id, getArtist(id))

\* GET /api/artists
GetArtists == GetList("GET /api/artists", getArtists)

\* GET /api/inventory/:id
GetInventoryItem ==
  \E id \in ItemIds : GetById("GET /api/inventory/:id", id, getInventoryItem(id))

\* GET /api/inventory, with and without lowStock=true
GetInventory ==
  \E lowStock \in BOOLEAN :
    /\ last' = Answered("GET /api/inventory", [lowStock |-> lowStock], 200,
                        [rows |-> IF lowStock THEN getLowStockItems ELSE getInventory])
    /\ UNCHANGED <<clients, artists, appointments, inventory, sales, now, calc, session>>

\* GET /api/appointments/:id
GetAppointment == \E id \in AppointmentIds : GetById("GET /api/appointments/:id", id, getAppointment(id))

\* GET /api/appointments, without a filter
GetAppointments == GetList("GET /api/appointments", getAppointments)

\* GET /api/sales/:id
GetSale == \E id \in SaleIds : GetById("GET /api/sales/:id", id, getSale(id))

\* GET /api/sales, without a date range
GetSales == GetList("GET /api/sales", getSales)

----------------------------------------------------------------------------
(* Dashboard *)

RECURSIVE SumTotalAmount(_)
\* sum(total_amount) over the sales with the given ids
SumTotalAmount(ids) ==
  IF ids = {} THEN 0
  ELSE LET id == CHOOSE i \in ids : TRUE
       IN sales[id].totalAmount + SumTotalAmount(ids \ {id})

\* where scheduled_date >= today and scheduled_date <= tomorrow
todayAppointmentsResult(asOf) ==
  LET today == StartOfDay(asOf)
      tomorrow == today + TicksPerDay
  IN Cardinality({ a \in DOMAIN appointments :
                     /\ appointments[a].scheduledDate >= today
                     /\ appointments[a].scheduledDate <= tomorrow })

\* where sale_date >= startOfMonth and sale_date <= endOfMonth; the day 0 of the
\* next month is the last day of this one, at 00:00
monthlyRevenueResult(asOf) ==
  LET startOfMonth == StartOfMonth(asOf)
      endOfMonth == startOfMonth + TicksPerMonth - TicksPerDay
  IN SumTotalAmount({ x \in DOMAIN sales :
                        /\ sales[x].saleDate >= startOfMonth
                        /\ sales[x].saleDate <= endOfMonth })

activeArtistsResult == Cardinality({ a \in DOMAIN artists : artists[a].isActive = TRUE })

\* where current_stock <= min_level
lowStockItemsResult ==
  Cardinality({ i \in DOMAIN inventory : inventory[i].currentStock <= inventory[i].minLevel })

getDashboardStats(asOf) ==
  [todayAppointments |-> todayAppointmentsResult(asOf),
   monthlyRevenue |-> monthlyRevenueResult(asOf),
   activeArtists |-> activeArtistsResult,
   lowStockItems |-> lowStockItemsResult]

\* GET /api/dashboard/stats: the handler reads the clock and the four counts
GetDashboardStats ==
  /\ last' = Answered("GET /api/dashboard/stats", [asOf |-> now], 200,
                      getDashboardStats(now))
  /\ UNCHANGED <<clients, artists, appointments, inventory, sales, now, calc, session>>

----------------------------------------------------------------------------
(* The sale form (SaleModal) *)

\* the status with the comparison against the total off by one
SalePaymentStatusLoose(remaining, total) ==
  IF remaining <= 0 THEN "completed"
  ELSE IF remaining <= total THEN "partial"
  ELSE "pending"

\* the status the form derives from the balance it computed
SalePaymentStatus(remaining, total) ==
  IF remaining <= 0 THEN "completed"
  ELSE IF remaining < total THEN "partial"
  ELSE "pending"

\* mutationFn: the payload the form sends
mutationFn(data) ==
  LET total == data.totalAmount
      deposit == data.deposit
      remaining == total - deposit
  IN Merge(data, [remainingBalance |-> remaining,
                  paymentStatus |-> SalePaymentStatus(remaining, total)])

\* the balance the form displays under the inputs
DisplayedRemainingBalance(data) == Max(0, data.totalAmount - data.deposit)

\* the values of the form when it is submitted: the selects offer the stored
\* clients and artists (0: nothing selected), the two amounts are typed, and
\* remainingBalance and paymentStatus keep their defaultValues
SaleFormData(editing, amounts) ==
  { [clientId |-> c, artistId |-> a, totalAmount |-> t, deposit |-> d,
     remainingBalance |-> IF editing = 0 THEN 0 ELSE sales[editing].remainingBalance,
     paymentStatus |-> IF editing = 0 THEN "pending" ELSE sales[editing].paymentStatus] :
      c \in DOMAIN clients \cup {0}, a \in DOMAIN artists \cup {0},
      t \in amounts, d \in amounts }

\* onSubmit: mutation.mutate(data), then the request of mutationFn
SaleModalSubmitData(editing, data) ==
  LET payload == mutationFn(data)
      response == IF editing = 0 THEN PostSaleResponse(payload)
                  ELSE PatchSaleResponse(editing, payload)
  IN /\ editing = 0 => DOMAIN sales # SaleIds
     /\ sales' = IF editing = 0 THEN PostSaleTable(payload)
                 ELSE PatchSaleTable(editing, payload)
     /\ last' = response
     /\ calc' = [status |-> response.status, data |-> data, payload |-> payload,
                 stored |-> response.body]
     /\ UNCHANGED <<clients, artists, appointments, inventory, now, session>>

SaleModalSubmit ==
  \E editing \in DOMAIN sales \cup {0} :
    \E data \in SaleFormData(editing, Amounts) : SaleModalSubmitData(editing, data)

\* the computation of the form alone, on amounts typed into it
SaleModalCompute ==
  /\ calc.status = 0
  /\ calc' = [calc EXCEPT !.status = 1, !.payload = mutationFn(calc.data)]
  /\ UNCHANGED <<clients, artists, appointments, inventory, sales, now, last, session>>

----------------------------------------------------------------------------
(* File upload. A text is modelled by the sequence of its parts, cut so that
   the words the filter looks for are parts of their own; sizes are in MB *)

MaxUploadFiles == 5
FileSizeLimitMB == 10

\* allowedTypes.test(text): the expression is not anchored, it matches when
\* one of the four words occurs anywhere in the text
allowedTypes(text) ==
  \E i \in 1..Len(text) : text[i] \in {"jpeg", "jpg", "png", "gif"}

\* a filter that takes every file
fileFilterAny(file) == TRUE

\* fileFilter: the extension of the original name and the declared mimetype
\* both pass the test
fileFilter(file) == allowedTypes(file.extname) /\ allowedTypes(file.mimetype)

\* limits.fileSize
WithinFileSize(file) == file.size <= FileSizeLimitMB

\* files that differ in their extension and declared type, and files that
\* differ in their size
TypedFiles ==
  { [extname |-> <<".", "png">>, mimetype |-> <<"image", "/", "png">>, size |-> 1],
    [extname |-> <<".", "pdf">>, mimetype |-> <<"application", "/", "pdf">>, size |-> 1],
    [extname |-> <<".", "png">>, mimetype |-> <<"application", "/", "x-", "png">>,
     size |-> 1] }

SizedFiles ==
  { [extname |-> <<".", "jpg">>, mimetype |-> <<"image", "/", "jpeg">>, size |-> z] :
      z \in {FileSizeLimitMB, FileSizeLimitMB + 1} }

\* what a caller may put into the field 'files' of one request: up to one
\* file more than upload.array('files', 5) takes
UploadRequests ==
  UNION { [1..n -> TypedFiles] \cup [1..n -> SizedFiles] :
            n \in 0..(MaxUploadFiles + MaxExtraFiles) }

\* multer passes the request on when no file breaks a limit
UploadAccepted(files) ==
  /\ Len(files) <= MaxUploadFiles
  /\ \A i \in 1..Len(files) : fileFilter(files[i]) /\ WithinFileSize(files[i])

\* `/uploads/${file.filename}`: the field name, a suffix of its own (the
\* position of the file stands for Date.now() and the random number) and the
\* extension of the original name
FileUrl(files, i) ==
  [path |-> "/uploads/files-", suffix |-> i, extname |-> files[i].extname]

\* POST /api/upload: an error of multer goes to the error handler of the
\* server, which answers 500
UploadOf(requests) ==
  \E files \in requests :
    /\ last' = IF UploadAccepted(files)
                 THEN Answered("POST /api/upload", [files |-> files], 200,
                               [urls |-> [i \in 1..Len(files) |-> FileUrl(files, i)]])
                 ELSE Answered("POST /api/upload", [files |-> files], 500, NoBody)
    /\ UNCHANGED <<clients, artists, appointments, inventory, sales, now, calc, session>>

Upload == UploadOf(UploadRequests)

\* the widget's test of a file's type: file.type.startsWith('image/')
isValidType(file) == file.mimetype[1] = "image" /\ file.mimetype[2] = "/"

----------------------------------------------------------------------------
(* Routes and the authentication middleware *)

\* the routes registerRoutes registers with isAuthenticated in front of the handler
GuardedRoutes ==
  { "GET /api/auth/user", "POST /api/upload", "GET /api/dashboard/stats",
    "GET /api/artists", "GET /api/artists/:id", "POST /api/artists",
    "PATCH /api/artists", "DELETE /api/artists",
    "GET /api/clients", "GET /api/clients/:id", "POST /api/clients",
    "PATCH /api/clients", "DELETE /api/clients",
    "GET /api/appointments", "GET /api/appointments/:id", "POST /api/appointments",
    "PATCH /api/appointments", "DELETE /api/appointments",
    "GET /api/inventory", "GET /api/inventory/:id", "POST /api/inventory",
    "PATCH /api/inventory", "DELETE /api/inventory",
    "GET /api/sales", "GET /api/sales/:id", "POST /api/sales",
    "PATCH /api/sales", "DELETE /api/sales" }

\* the routes with the dashboard left open
GuardedExceptStats(op) == op \in GuardedRoutes \ {"GET /api/dashboard/stats"}

Guarded(op) == op \in GuardedRoutes

\* isAuthenticated: the handler is called for a session with an identity, any
\* other request is answered 401
isAuthenticated(op, Handler) ==
  IF session THEN Handler
  ELSE /\ last' = Answered(op, NoBody, 401, NoBody)
       /\ UNCHANGED <<clients, artists, appointments, inventory, sales, now, calc, session>>

\* app.get / app.post / app.patch / app.delete(path, isAuthenticated, handler)
Route(op, Handler) == IF Guarded(op) THEN isAuthenticated(op, Handler) ELSE Handler

\* the caller logs in, or the session ends
Login ==
  /\ ~session
  /\ session' = TRUE
  /\ UNCHANGED <<clients, artists, appointments, inventory, sales, now, last, calc>>

Logout ==
  /\ session
  /\ session' = FALSE
  /\ UNCHANGED <<clients, artists, appointments, inventory, sales, now, last, calc>>

\* GET /api/auth/user: the user of the session's identity
GetAuthUser ==
  /\ last' = Answered("GET /api/auth/user", NoBody, 200, [sub |-> "user"])
  /\ UNCHANGED <<clients, artists, appointments, inventory, sales, now, calc, session>>

----------------------------------------------------------------------------
(* Specifications *)

OneClient == (1 :> [id |-> 1, firstName |-> "Ada", lastName |-> "Lee"])
OneArtist == (1 :> [id |-> 1, name |-> "Kim", isActive |-> TRUE])

\* one stored client and one stored artist, and nothing else
InitStudio ==
  /\ clients = OneClient
  /\ artists = OneArtist
  /\ appointments = <<>>
  /\ inventory = <<>>
  /\ sales = <<>>
  /\ now = 0
  /\ last = NoResponse
  /\ calc = NoCalc
  /\ session = TRUE

NextSales == PostSale(SaleBodies, MaxApiSales) \/ PatchSale \/ DeleteSale

SpecSales == InitStudio /\ [][NextSales]_vars

\* sales recorded and edited through the sale form
NextSaleModal == SaleModalSubmit \/ DeleteSale

SpecSaleModal == InitStudio /\ [][NextSaleModal]_vars

\* the computation of the sale form on every pair of typed amounts
InitSaleCalc ==
  /\ clients = OneClient
  /\ artists = OneArtist
  /\ appointments = <<>>
  /\ inventory = <<>>
  /\ sales = <<>>
  /\ now = 0
  /\ last = NoResponse
  /\ session = TRUE
  /\ \E t \in FormAmounts, d \in FormAmounts :
       calc = [status |-> 0,
               data |-> [clientId |-> 1, artistId |-> 1, totalAmount |-> t, deposit |-> d,
                         remainingBalance |-> 0, paymentStatus |-> "pending"],
               payload |-> NoBody]

NextSaleCalc == SaleModalCompute

SpecSaleCalc == InitSaleCalc /\ [][NextSaleCalc]_vars

\* the inventory API and the dashboard
NextInventory == PostInventory \/ PatchInventory \/ DeleteInventory \/ GetDashboardStats

SpecInventory == InitStudio /\ [][NextInventory]_vars

\* appointments booked for the stored client and artist at any time, and the
\* dashboard read as the clock advances
ScheduledBodies ==
  { [clientId |-> 1, artistId |-> 1, scheduledDate |-> d] : d \in Times }

NextToday ==
  PostAppointment(ScheduledBodies) \/ DeleteAppointment \/ Tick \/ GetDashboardStats

SpecToday == InitStudio /\ [][NextToday]_vars

\* sales recorded for the stored client and artist, dated or not, and the
\* dashboard read as the clock advances
DatedSaleBodies ==
  { [clientId |-> 1, artistId |-> 1, totalAmount |-> t] @@ d :
      t \in Amounts, d \in Opt("saleDate", Times) }

NextRevenue ==
  PostSale(DatedSaleBodies, MaxSales) \/ DeleteSale \/ Tick \/ GetDashboardStats

SpecRevenue == InitStudio /\ [][NextRevenue]_vars

\* clients come and go while appointments are booked with the stored artist
InitAppointments ==
  /\ clients = <<>>
  /\ artists = OneArtist
  /\ appointments = <<>>
  /\ inventory = <<>>
  /\ sales = <<>>
  /\ now = 0
  /\ last = NoResponse
  /\ calc = NoCalc
  /\ session = TRUE

NextAppointments ==
  \/ PostClient
  \/ DeleteClient
  \/ PostAppointment(AppointmentBodies({now}))
  \/ DeleteAppointment

SpecAppointments == InitAppointments /\ [][NextAppointments]_vars

\* clients, artists, appointments and sales together: every write that can
\* make or break a reference. The studio starts with one client and one artist;
\* clients come and go, the artist can only be deleted
ReferencePatches ==
  {[clientId |-> c] : c \in ClientIds} \cup {[artistId |-> a] : a \in ArtistIds}

ReferenceAppointmentBodies ==
  { c @@ a @@ [scheduledDate |-> now] :
      c \in Opt("clientId", ClientIds), a \in Opt("artistId", ArtistIds) }

ReferenceSaleBodies ==
  { c @@ a @@ [totalAmount |-> 0] :
      c \in Opt("clientId", ClientIds), a \in Opt("artistId", ArtistIds) }

NextReferences ==
  \/ PostClient
  \/ DeleteClient
  \/ DeleteArtist
  \/ PostAppointmentUpTo(ReferenceAppointmentBodies, MaxReferringRows)
  \/ PatchAppointment(ReferencePatches)
  \/ DeleteAppointment
  \/ PostSale(ReferenceSaleBodies, MaxReferringRows)
  \/ PatchSaleOf(ReferencePatches)
  \/ DeleteSale

SpecReferences == InitStudio /\ [][NextReferences]_vars

\* the writes of SpecReferences with sales that may name an appointment, and
\* the reads that return appointments and sales with their relations
LinkedSaleBodies ==
  { b @@ p : b \in ReferenceSaleBodies, p \in Opt("appointmentId", AppointmentIds) }

LinkPatches == ReferencePatches \cup {[appointmentId |-> p] : p \in AppointmentIds}

NextReads ==
  \/ PostClient
  \/ DeleteClient
  \/ DeleteArtist
  \/ PostAppointmentUpTo(ReferenceAppointmentBodies, MaxReferringRows)
  \/ PatchAppointment(ReferencePatches)
  \/ DeleteAppointment
  \/ PostSale(LinkedSaleBodies, MaxReferringRows)
  \/ PatchSaleOf(LinkPatches)
  \/ DeleteSale
  \/ GetAppointment
  \/ GetAppointments
  \/ GetSale
  \/ GetSales

SpecReads == InitStudio /\ [][NextReads]_vars

\* appointments and inventory items written with every value of their enum
\* column and with one value outside it
StatusTextsOfAppointments == AppointmentStatuses \cup {"rescheduled"}

CategoryTexts == InventoryCategories \cup {"glitter"}

StatusBodies ==
  { [clientId |-> c, artistId |-> a, scheduledDate |-> now] @@ t :
      c \in DOMAIN clients, a \in DOMAIN artists,
      t \in Opt("status", StatusTextsOfAppointments) }

StatusPatches == { [status |-> t] : t \in StatusTextsOfAppointments }

CategoryBodies == { [name |-> "Ink"] @@ k : k \in Opt("category", CategoryTexts) }

CategoryPatches == { [category |-> k] : k \in CategoryTexts }

NextEnums ==
  \/ PostAppointmentUpTo(StatusBodies, MaxEnumRows)
  \/ PatchAppointment(StatusPatches)
  \/ DeleteAppointment
  \/ PostInventoryUpTo(CategoryBodies, MaxEnumRows)
  \/ PatchInventoryOf(CategoryPatches)
  \/ DeleteInventory

SpecEnums == InitStudio /\ [][NextEnums]_vars

NextUpload == Upload

SpecUpload == InitStudio /\ [][NextUpload]_vars

\* every route of the server, called with and without an identity. The five
\* resources are written one at a time: the writes of a resource are sent
\* while the tables of the other resources are as they were at the start
AtRest(others) ==
  /\ "clients" \in others => clients = OneClient
  /\ "artists" \in others => artists = OneArtist
  /\ "appointments" \in others => appointments = <<>>
  /\ "inventory" \in others => inventory = <<>>
  /\ "sales" \in others => sales = <<>>

Resources == {"clients", "artists", "appointments", "inventory", "sales"}

Writing(resource) == AtRest(Resources \ {resource})

SmallUploads == {<<>>} \cup { <<file>> : file \in TypedFiles }

NextApi ==
  \/ Login
  \/ Logout
  \/ Route("GET /api/auth/user", GetAuthUser)
  \/ Route("POST /api/upload", UploadOf(SmallUploads))
  \/ Route("GET /api/dashboard/stats", GetDashboardStats)
  \/ Route("GET /api/artists", GetArtists)
  \/ Route("GET /api/artists/:id", GetArtist)
  \/ Writing("artists") /\ Route("POST /api/artists", PostArtist)
  \/ Writing("artists") /\ Route("PATCH /api/artists", PatchArtist)
  \/ Writing("artists") /\ Route("DELETE /api/artists", DeleteArtist)
  \/ Route("GET /api/clients", GetClients)
  \/ Route("GET /api/clients/:id", GetClient)
  \/ Writing("clients") /\ Route("POST /api/clients", PostClient)
  \/ Writing("clients") /\ Route("PATCH /api/clients", PatchClient)
  \/ Writing("clients") /\ Route("DELETE /api/clients", DeleteClient)
  \/ Route("GET /api/appointments", GetAppointments)
  \/ Route("GET /api/appointments/:id", GetAppointment)
  \/ Writing("appointments") /\
       Route("POST /api/appointments", PostAppointment(ReferenceAppointmentBodies))
  \/ Writing("appointments") /\
       Route("PATCH /api/appointments", PatchAppointment(ReferencePatches))
  \/ Writing("appointments") /\ Route("DELETE /api/appointments", DeleteAppointment)
  \/ Route("GET /api/inventory", GetInventory)
  \/ Route("GET /api/inventory/:id", GetInventoryItem)
  \/ Writing("inventory") /\ Route("POST /api/inventory", PostInventoryOf(CategoryBodies))
  \/ Writing("inventory") /\ Route("PATCH /api/inventory", PatchInventoryOf(CategoryPatches))
  \/ Writing("inventory") /\ Route("DELETE /api/inventory", DeleteInventory)
  \/ Route("GET /api/sales", GetSales)
  \/ Route("GET /api/sales/:id", GetSale)
  \/ Writing("sales") /\ Route("POST /api/sales", PostSale(ReferenceSaleBodies, MaxSales))
  \/ Writing("sales") /\ Route("PATCH /api/sales", PatchSaleOf(ReferencePatches))
  \/ Writing("sales") /\ Route("DELETE /api/sales", DeleteSale)

SpecApi == InitStudio /\ [][NextApi]_vars

----------------------------------------------------------------------------
(* Claims about sales *)

\* the balance and the status the specification derives from a total and a deposit
ExpectedBalance(total, deposit) == Max(0, total - deposit)

ExpectedStatus(remaining, total) ==
  IF remaining <= 0 THEN "completed"
  ELSE IF remaining < total THEN "partial"
  ELSE "pending"

\* C1: every stored Sale satisfies remainingBalance = max(0, totalAmount - deposit)
C1_BalanceRecomputed ==
  \A id \in DOMAIN sales :
    sales[id].remainingBalance = ExpectedBalance(sales[id].totalAmount, sales[id].deposit)

\* C2: every stored Sale's paymentStatus is the one derived from its
\* remainingBalance and totalAmount, and so one of the three values
C2_StatusDerived ==
  \A id \in DOMAIN sales :
    /\ sales[id].paymentStatus \in PaymentStatuses
    /\ sales[id].paymentStatus =
         ExpectedStatus(sales[id].remainingBalance, sales[id].totalAmount)

\* bodies that differ from body only in the remainingBalance and paymentStatus supplied
Variants(body) ==
  { Merge(body, r @@ p) :
      r \in {f \in Opt("remainingBalance", Amounts) : DOMAIN f \subseteq DOMAIN body},
      p \in {f \in Opt("paymentStatus", StatusTexts) : DOMAIN f \subseteq DOMAIN body} }

\* C3: a create, or an update of the same Sale, that differs only in the supplied
\* remainingBalance and paymentStatus leaves the same stored rows
C3_SuppliedDerivedFieldsIgnored ==
  [][ /\ \A body \in SaleBodies :
           PostSaleBody(body) => \A other \in Variants(body) : PostSaleTable(other) = sales'
      /\ \A id \in SaleIds, body \in SaleBodies :
           PatchSaleBody(id, body) =>
             \A other \in Variants(body) : PatchSaleTable(id, other) = sales' ]_vars

\* the form was submitted with both selects set
SubmittedComplete ==
  /\ calc.status >= 200
  /\ calc.data.clientId # 0
  /\ calc.data.artistId # 0

\* C4: a Sale recorded or edited with deposit > totalAmount is accepted, and the
\* remainingBalance submitted and stored is 0 with paymentStatus "completed"
C4_OverpaymentClamped ==
  (SubmittedComplete /\ calc.data.deposit > calc.data.totalAmount) =>
    /\ calc.status \in {200, 201}
    /\ calc.payload.remainingBalance = 0
    /\ calc.payload.paymentStatus = "completed"
    /\ calc.stored.remainingBalance = 0
    /\ calc.stored.paymentStatus = "completed"

\* C5: for 0 <= deposit <= totalAmount the computation gives remainingBalance =
\* totalAmount - deposit, "completed" iff that is 0, else "partial" if it is
\* below totalAmount, else "pending"
C5_SaleComputation ==
  (/\ calc.status = 1
   /\ calc.data.totalAmount >= 0
   /\ 0 <= calc.data.deposit
   /\ calc.data.deposit <= calc.data.totalAmount) =>
    LET total == calc.data.totalAmount
        remaining == calc.payload.remainingBalance
        status == calc.payload.paymentStatus
    IN /\ remaining = total - calc.data.deposit
       /\ (status = "completed") <=> (remaining = 0)
       /\ remaining # 0 => status = (IF remaining < total THEN "partial" ELSE "pending")

\* a part payment computed (5/2 gives 3 and partial) ...
C5_Witness ==
  /\ calc.status = 1
  /\ calc.data.totalAmount = 5
  /\ calc.data.deposit = 2
  /\ calc.payload.remainingBalance = 3
  /\ calc.payload.paymentStatus = "partial"

----------------------------------------------------------------------------
(* Claims about inventory and the dashboard *)

\* C6: an item is out of stock iff currentStock = 0, low on stock iff
\* 0 < currentStock <= minLevel, and in stock otherwise
C6_StockClassification ==
  \A i \in DOMAIN inventory :
    LET stock == inventory[i].currentStock
        level == inventory[i].minLevel
        label == getStockStatus(stock, level)
    IN /\ (label = "Out of Stock") <=> (stock = 0)
       /\ (label = "Low Stock") <=> (0 < stock /\ stock <= level)
       /\ (label = "In Stock") <=> (stock # 0 /\ ~(0 < stock /\ stock <= level))

StatsAnswered == last.op = "GET /api/dashboard/stats"

\* C7: lowStockItems is the number of stored items classified low or out of
\* stock, which is the number of items with currentStock <= minLevel
C7_LowStockCountIsUnion ==
  StatsAnswered =>
    /\ last.body.lowStockItems =
         Cardinality({ i \in DOMAIN inventory :
                         getStockStatus(inventory[i].currentStock, inventory[i].minLevel)
                           \in {"Low Stock", "Out of Stock"} })
    /\ last.body.lowStockItems =
         Cardinality({ i \in DOMAIN inventory :
                         inventory[i].currentStock <= inventory[i].minLevel })

\* C8: todayAppointments counts exactly the appointments scheduled at
\* start-of-today <= t < start-of-tomorrow
C8_TodayIsHalfOpen ==
  StatsAnswered =>
    last.body.todayAppointments =
      Cardinality({ a \in DOMAIN appointments :
                      /\ StartOfDay(last.request.asOf) <= appointments[a].scheduledDate
                      /\ appointments[a].scheduledDate <
                           StartOfDay(last.request.asOf) + TicksPerDay })

\* C9: monthlyRevenue is the sum of totalAmount over exactly the sales dated in
\* the calendar month of the query, its whole last day included
C9_RevenueOfCalendarMonth ==
  StatsAnswered =>
    last.body.monthlyRevenue =
      SumTotalAmount({ x \in DOMAIN sales :
                         StartOfMonth(sales[x].saleDate) = StartOfMonth(last.request.asOf) })

\* the body names no stored client, or no stored artist
DanglingReference(body) ==
  \/ ~Has(body, "clientId")
  \/ ~Has(body, "artistId")
  \/ body.clientId \notin DOMAIN clients
  \/ body.artistId \notin DOMAIN artists

\* C10: creating an Appointment whose clientId or artistId identifies no stored
\* Client or Artist answers with an error and leaves the appointments unchanged
C10_DanglingAppointmentRejected ==
  [][ (/\ last'.op = "POST /api/appointments"
       /\ PostAppointmentBody(last'.request)
       /\ DanglingReference(last'.request)) =>
        /\ last'.status >= 400
        /\ appointments' = appointments ]_vars

\* a complete body naming a client that is not stored, next to a stored artist
\* and a stored appointment, was answered
C10_Witness ==
  /\ last.op = "POST /api/appointments"
  /\ insertAppointmentSchemaOk(last.request)
  /\ last.request.clientId \notin DOMAIN clients
  /\ last.request.artistId \in DOMAIN artists
  /\ appointments # <<>>
  /\ last.status = 400

----------------------------------------------------------------------------
(* Claims about references *)

ReferencesResolve ==
  /\ \A a \in DOMAIN appointments :
       /\ appointments[a].clientId \in DOMAIN clients
       /\ appointments[a].artistId \in DOMAIN artists
  /\ \A x \in DOMAIN sales :
       /\ sales[x].clientId \in DOMAIN clients
       /\ sales[x].artistId \in DOMAIN artists

\* C11: every Appointment's and Sale's clientId and artistId identify a stored
\* Client and Artist in every reachable state, and a delete of a Client or
\* Artist that is still referenced answers an error and changes no table
C11_ReferencesResolve ==
  /\ []ReferencesResolve
  /\ [][ /\ (last'.op = "DELETE /api/clients" /\ ClientReferenced(last'.request.id)) =>
             (last'.status >= 400 /\
              UNCHANGED <<clients, artists, appointments, inventory, sales>>)
         /\ (last'.op = "DELETE /api/artists" /\ ArtistReferenced(last'.request.id)) =>
             (last'.status >= 400 /\
              UNCHANGED <<clients, artists, appointments, inventory, sales>>) ]_vars

\* a delete of a client that only a sale points to was refused
C11_Witness ==
  /\ last.op = "DELETE /api/clients"
  /\ last.status = 500
  /\ last.request.id \in DOMAIN clients
  /\ ~ClientReferencedByAppointments(last.request.id)
  /\ \E x \in DOMAIN sales : sales[x].clientId = last.request.id

\* the records a read of appointments or sales returned
ReturnedRecords ==
  IF last.op \in {"GET /api/appointments", "GET /api/sales"} THEN last.body.rows
  ELSE IF last.op \in {"GET /api/appointments/:id", "GET /api/sales/:id"} /\ last.status = 200
    THEN {last.body}
  ELSE {}

ReturnedSales ==
  IF last.op = "GET /api/sales" THEN last.body.rows
  ELSE IF last.op = "GET /api/sales/:id" /\ last.status = 200 THEN {last.body}
  ELSE {}

\* C13: a Sale without appointmentId can be created and is returned without an
\* appointment; a Sale with an appointmentId is returned with exactly the
\* Appointment of that id
C13_OptionalAppointment ==
  /\ \A body \in LinkedSaleBodies :
       (/\ insertSaleSchemaOk(body) /\ ~Has(body, "appointmentId")
        /\ body.clientId \in DOMAIN clients /\ body.artistId \in DOMAIN artists)
         => PostSaleOk(body)
  /\ \A r \in ReturnedSales :
       IF Has(r, "appointmentId")
         THEN /\ Has(r, "appointment")
              /\ r.appointment.id = r.appointmentId
              /\ r.appointment = appointments[r.appointmentId]
         ELSE ~Has(r, "appointment")

\* a sale without appointmentId was returned while an appointment is stored
C13_UnlinkedReturned ==
  /\ last.op = "GET /api/sales/:id" /\ last.status = 200
  /\ ~Has(last.body, "appointmentId") /\ ~Has(last.body, "appointment")
  /\ appointments # <<>>

\* a sale that names an appointment was returned with it
C13_Witness ==
  /\ last.op = "GET /api/sales"
  /\ \E r \in last.body.rows :
       Has(r, "appointmentId") /\ r.appointment = appointments[r.appointmentId]

----------------------------------------------------------------------------
(* Claims about validation *)

\* C14: every stored row has stock and minimum level >= 0 and amounts >= 0,
\* because a create or update with a numeric field outside its range is
\* rejected
C14_RangesValidated ==
  /\ \A i \in DOMAIN inventory :
       inventory[i].currentStock >= 0 /\ inventory[i].minLevel >= 0
  /\ \A x \in DOMAIN sales :
       sales[x].totalAmount >= 0 /\ sales[x].deposit >= 0

EnumsHold ==
  /\ \A a \in DOMAIN appointments : appointments[a].status \in AppointmentStatuses
  /\ \A i \in DOMAIN inventory : inventory[i].category \in InventoryCategories

\* the body of the appointment write the server answered last
WrittenBody == IF last.op = "PATCH /api/appointments" THEN last.request.body ELSE last.request

\* the write the server answered last carried a status outside the enum
OutsideEnum ==
  /\ last.op \in {"POST /api/appointments", "PATCH /api/appointments"}
  /\ Has(WrittenBody, "status")
  /\ WrittenBody.status \notin AppointmentStatuses

----------------------------------------------------------------------------
(* Claims about the upload *)

\* C17: an upload is accepted only with at most 5 files, each of at most 10MB
\* and of an image type; an accepted upload returns one URL per file in the
\* order of the files, and a rejected one returns no reference
C17_UploadLimits ==
  last.op = "POST /api/upload" =>
    LET files == last.request.files
    IN IF last.status = 200
         THEN /\ Len(files) <= MaxUploadFiles
              /\ \A i \in 1..Len(files) :
                   files[i].size <= FileSizeLimitMB /\ isValidType(files[i])
              /\ Len(last.body.urls) = Len(files)
              /\ \A i \in 1..Len(files) : last.body.urls[i] = FileUrl(files, i)
         ELSE last.body = NoBody

\* the same without the condition on the type of the files
UploadLimitsOfFilter ==
  last.op = "POST /api/upload" =>
    LET files == last.request.files
    IN IF last.status = 200
         THEN /\ Len(files) <= MaxUploadFiles
              /\ \A i \in 1..Len(files) :
                   files[i].size <= FileSizeLimitMB /\ fileFilter(files[i])
              /\ Len(last.body.urls) = Len(files)
              /\ \A i \in 1..Len(files) : last.body.urls[i] = FileUrl(files, i)
         ELSE last.body = NoBody

----------------------------------------------------------------------------
(* Claims about the routes *)

\* C16: a request of a session without an authenticated identity is answered
\* 401 by every route: it runs no storage operation and no upload, changes no
\* table and returns no entity state
C16_UnauthenticatedTouchesNothing ==
  [][ (~session /\ ~session') =>
        /\ last'.status = 401
        /\ last'.body = NoBody
        /\ UNCHANGED <<clients, artists, appointments, inventory, sales>> ]_vars

\* a delete of a stored sale was refused for want of an identity
C16_Witness ==
  /\ ~session
  /\ last.op = "DELETE /api/sales"
  /\ last.status = 401
  /\ sales # <<>>

\* the table of a resource, what the storage returns for one id and for the
\* list, and the names of its routes
TableOf(resource) ==
  CASE resource = "clients" -> clients
    [] resource = "artists" -> artists
    [] resource = "appointments" -> appointments
    [] resource = "inventory" -> inventory
    [] resource = "sales" -> sales

RowOf(resource, id) ==
  CASE resource = "clients" -> getClient(id)
    [] resource = "artists" -> getArtist(id)
    [] resource = "appointments" -> getAppointment(id)
    [] resource = "inventory" -> getInventoryItem(id)
    [] resource = "sales" -> getSale(id)

ListOf(resource) ==
  CASE resource = "clients" -> getClients
    [] resource = "artists" -> getArtists
    [] resource = "appointments" -> getAppointments
    [] resource = "inventory" -> getInventory
    [] resource = "sales" -> getSales

RoutesOf(resource) ==
  CASE resource = "clients" ->
         [post |-> "POST /api/clients", get |-> "GET /api/clients/:id",
          patch |-> "PATCH /api/clients", delete |-> "DELETE /api/clients"]
    [] resource = "artists" ->
         [post |-> "POST /api/artists", get |-> "GET /api/artists/:id",
          patch |-> "PATCH /api/artists", delete |-> "DELETE /api/artists"]
    [] resource = "appointments" ->
         [post |-> "POST /api/appointments", get |-> "GET /api/appointments/:id",
          patch |-> "PATCH /api/appointments", delete |-> "DELETE /api/appointments"]
    [] resource = "inventory" ->
         [post |-> "POST /api/inventory", get |-> "GET /api/inventory/:id",
          patch |-> "PATCH /api/inventory", delete |-> "DELETE /api/inventory"]
    [] resource = "sales" ->
         [post |-> "POST /api/sales", get |-> "GET /api/sales/:id",
          patch |-> "PATCH /api/sales", delete |-> "DELETE /api/sales"]

\* the answer of GET /api/<resource>/:id in the current state
GetAnswer(resource, id) ==
  LET row == RowOf(resource, id)
  IN [status |-> IF row = Null THEN 404 ELSE 200, body |-> row]

\* C18: for each resource, right after a successful create a GET by the
\* returned id answers 200 with the created row; right after a successful
\* DELETE of an id a GET by it answers 404 and no list holds the row; and a
\* GET by id answers 404 exactly when no row has the id
C18_ReadAfterWrite ==
  \A resource \in Resources :
    /\ (last.op = RoutesOf(resource).post /\ last.status = 201) =>
         /\ GetAnswer(resource, last.body.id).status = 200
         /\ \A f \in DOMAIN last.body :
              GetAnswer(resource, last.body.id).body[f] = last.body[f]
    /\ (last.op = RoutesOf(resource).delete /\ last.status = 204) =>
         /\ GetAnswer(resource, last.request.id).status = 404
         /\ \A row \in ListOf(resource) : row.id # last.request.id
    /\ last.op = RoutesOf(resource).get /\ last.status # 401 =>
         /\ last.status = 404 <=> last.request.id \notin DOMAIN TableOf(resource)
         /\ last.status = 200 =>
              /\ last.body.id = last.request.id
              /\ \A f \in DOMAIN TableOf(resource)[last.request.id] :
                   last.body[f] = TableOf(resource)[last.request.id][f]

\* a GET by an id no row has was answered 404 while another row is stored
C18_Witness ==
  /\ last.op = "GET /api/inventory/:id"
  /\ last.status = 404
  /\ inventory # <<>>
  /\ last.request.id \notin DOMAIN inventory

\* C19: a PATCH addressed to an id no row has answers 404, for each resource
C19_PatchOfMissingRow ==
  \A resource \in Resources :
    (/\ last.op = RoutesOf(resource).patch
     /\ last.status # 401
     /\ last.request.id \notin DOMAIN TableOf(resource)) => last.status = 404

\* C20: a create answers 400 only when its payload fails validation: a refusal
\* of the datastore (here a foreign key) answers 500
C20_ErrorClasses ==
  /\ (last.op = "POST /api/appointments" /\ last.status = 400) =>
       ~insertAppointmentSchemaOk(last.request)
  /\ (/\ last.op = "POST /api/appointments"
      /\ last.status # 401
      /\ insertAppointmentSchemaOk(last.request)
      /\ ~AppointmentForeignKeysOk(last.request)) => last.status = 500

----------------------------------------------------------------------------
(* Updates of a stored row *)

MaxFrameRows == 2
MaxFrameTicks == 2

\* an appointment created at time 0 by a request of the booking form
FirstAppointment ==
  (1 :> [id |-> 1, clientId |-> 1, artistId |-> 1, scheduledDate |-> 0,
         status |-> "scheduled", createdAt |-> 0, updatedAt |-> 0])

\* update bodies: any of id, createdAt and status
FramePatches ==
  { i @@ c @@ s :
      i \in Opt("id", {2}), c \in Opt("createdAt", {MaxFrameTicks + 1}),
      s \in Opt("status", {"completed"}) }

FrameTick == now < MaxFrameTicks /\ Tick

InitFrame ==
  /\ clients = OneClient
  /\ artists = OneArtist
  /\ appointments = FirstAppointment
  /\ inventory = <<>>
  /\ sales = <<>>
  /\ now = 0
  /\ last = NoResponse
  /\ calc = NoCalc
  /\ session = TRUE

NextFrame ==
  \/ PostAppointmentUpTo({[clientId |-> 1, artistId |-> 1, scheduledDate |-> 0]},
                         MaxFrameRows)
  \/ PatchAppointment(FramePatches)
  \/ FrameTick

SpecFrame == InitFrame /\ [][NextFrame]_vars

\* the step is a PATCH /api/appointments/:id answered 200 on a stored row
UpdatedAppointment ==
  /\ last' /= last
  /\ last'.op = "PATCH /api/appointments"
  /\ last'.status = 200
  /\ last'.request.id \in DOMAIN appointments

\* C21: no step changes the id or the createdAt of a stored appointment, and an
\* update sets the fields of its body that the schema has, sets updatedAt to
\* the time of the update, keeps every other field of the row and keeps every
\* other row
C21_UpdateFrame ==
  [][ /\ \A id \in DOMAIN appointments \cap DOMAIN appointments' :
           /\ appointments'[id].id = appointments[id].id
           /\ appointments'[id].createdAt = appointments[id].createdAt
      /\ UpdatedAppointment =>
           LET id == last'.request.id
               body == last'.request.body
               payload == DOMAIN body \ {"id", "createdAt", "updatedAt"}
           IN /\ DOMAIN appointments' = DOMAIN appointments
              /\ \A other \in DOMAIN appointments \ {id} :
                   appointments'[other] = appointments[other]
              /\ DOMAIN appointments'[id] = DOMAIN appointments[id] \cup payload
              /\ \A f \in payload : appointments'[id][f] = body[f]
              /\ appointments'[id].updatedAt = now
              /\ \A f \in DOMAIN appointments[id] \ (payload \cup {"updatedAt"}) :
                   appointments'[id][f] = appointments[id][f]
              /\ clients' = clients /\ artists' = artists
              /\ inventory' = inventory /\ sales' = sales
    ]_vars

\* an update naming another row's id and a later createdAt was answered 200, after
\* the clock advanced, while another row was stored
C21_Witness ==
  /\ last.op = "PATCH /api/appointments"
  /\ last.status = 200
  /\ Has(last.request.body, "id")
  /\ Has(last.request.body, "createdAt")
  /\ Has(last.request.body, "status")
  /\ last.request.id = 1
  /\ DOMAIN appointments = {1, 2}
  /\ appointments[1].id = 1
  /\ appointments[1].createdAt = 0
  /\ appointments[1].updatedAt = MaxFrameTicks
  /\ appointments[1].status = "completed"
  /\ appointments[2].status = "scheduled"

----------------------------------------------------------------------------
(* Client search. A text is the sequence of its characters *)

MaxQueryLen == 2

SearchCharacters == {"a", "B", "_", "%"}

\* LOWER() of a character
Lower(c) == IF c = "A" THEN "a" ELSE IF c = "B" THEN "b" ELSE c

\* LOWER() of a text
LowerText(text) == [i \in 1..Len(text) |-> Lower(text[i])]

RECURSIVE Like(_, _)
\* text LIKE pattern: % matches any run of characters, _ matches any one
\* character and every other character matches itself
Like(text, pattern) ==
  IF pattern = <<>>
    THEN text = <<>>
    ELSE IF Head(pattern) = "%"
           THEN Like(text, Tail(pattern)) \/ (text # <<>> /\ Like(Tail(text), pattern))
           ELSE /\ text # <<>>
                /\ Head(pattern) = "_" \/ Head(pattern) = Head(text)
                /\ Like(Tail(text), Tail(pattern))

\* LOWER(column) LIKE LOWER('%query%'); a NULL column matches nothing
ColumnMatches(row, column, query) ==
  /\ Has(row, column)
  /\ Like(LowerText(row[column]), LowerText(<<"%">> \o query \o <<"%">>))

\* the rows searchClients(query) selects
searchClients(query) ==
  { row \in getClients :
      \/ ColumnMatches(row, "firstName", query)
      \/ ColumnMatches(row, "lastName", query)
      \/ ColumnMatches(row, "email", query) }

\* GET /api/clients?search=query: an empty query is falsy and lists every client
SearchClients(query) ==
  /\ last' = Answered("GET /api/clients", [search |-> query], 200,
                      [rows |-> IF query # <<>> THEN searchClients(query) ELSE getClients])
  /\ UNCHANGED <<clients, artists, appointments, inventory, sales, now, calc, session>>

Queries == UNION { [1..n -> SearchCharacters] : n \in 0..MaxQueryLen }

SearchedBodies ==
  { [firstName |-> f, lastName |-> <<"z">>] @@ e :
      f \in {<<"a">>, <<"A", "b">>, <<"a", "_">>}, e \in Opt("email", {<<"b", "%">>}) }

InitSearch ==
  /\ clients = <<>>
  /\ artists = <<>>
  /\ appointments = <<>>
  /\ inventory = <<>>
  /\ sales = <<>>
  /\ now = 0
  /\ last = NoResponse
  /\ calc = NoCalc
  /\ session = TRUE

NextSearch ==
  \/ PostClientOf(SearchedBodies)
  \/ \E query \in Queries : SearchClients(query)

SpecSearch == InitSearch /\ [][NextSearch]_vars

\* query occurs in text as a literal substring, ignoring case
OccursIn(query, text) ==
  \E i \in 0..(Len(text) - Len(query)) :
    \A j \in 1..Len(query) : Lower(text[i + j]) = Lower(query[j])

\* C22: a search with a non-empty query returns exactly the stored clients in
\* whose firstName, lastName or email the query occurs as a literal substring,
\* ignoring case, and a search with an empty query returns every client
C22_SearchIsLiteral ==
  (last.op = "GET /api/clients" /\ Has(last.request, "search")) =>
    LET query == last.request.search
    IN last.body.rows =
         IF query = <<>>
           THEN getClients
           ELSE { row \in getClients :
                    \/ OccursIn(query, row.firstName)
                    \/ OccursIn(query, row.lastName)
                    \/ Has(row, "email") /\ OccursIn(query, row.email) }

----------------------------------------------------------------------------
(* The client form (ClientModal) *)

\* useForm's defaultValues of the create dialog: every text field starts as ""
ClientFormDefaults == [firstName |-> "", lastName |-> "", email |-> ""]

\* what the user types: a field left blank keeps its default
ClientFormInputs ==
  { f @@ l @@ e :
      f \in Opt("firstName", {"Ada", "Bo"}), l \in Opt("lastName", {"Lee"}),
      e \in Opt("email", {"ada@x", "bo@x"}) }

\* form.handleSubmit(onSubmit): the form's values pass insertClientSchema, whose
\* text fields accept "", and are posted as they stand; calc keeps what the form
\* sent and the status it was answered with
ClientModalSubmit ==
  \E typed \in ClientFormInputs :
    LET data == Merge(ClientFormDefaults, typed)
    IN /\ DOMAIN clients # ClientIds
       /\ PostClientAnswer(data)
       /\ calc' = [status |-> last'.status, data |-> data]
       /\ UNCHANGED <<artists, appointments, inventory, sales, now, session>>

NextClientForm ==
  \/ ClientModalSubmit
  \/ PostClient
  \/ DeleteClient

SpecClientForm == InitSearch /\ [][NextClientForm]_vars

\* no two stored clients have the same email
ClientEmailsDistinct ==
  \A c, d \in DOMAIN clients :
    (c # d /\ Has(clients[c], "email") /\ Has(clients[d], "email")) =>
      clients[c].email # clients[d].email

\* C23: a submission of the client form with both names given and the email
\* left blank is answered 201, and no two stored clients have the same email
C23_BlankEmailAccepted ==
  /\ (/\ Has(calc, "data")
      /\ calc.data.firstName # ""
      /\ calc.data.lastName # ""
      /\ calc.data.email = "") => calc.status = 201
  /\ ClientEmailsDistinct

----------------------------------------------------------------------------
(* The reference-image widget (FileUpload) inside the booking form
   (AppointmentModal). calc holds the form: value is the referenceImages state
   of the form, inFlight the uploads whose request is not answered yet and
   event what the widget did last *)

maxFiles == 5
maxSizePerFile == 10

\* the number a stored file's name may end with: Date.now() and the random
\* number, which two uploads may share
UrlSuffixes == {1, 2}

Png == [extname |-> <<".", "png">>, mimetype |-> <<"image", "/", "png">>, size |-> 1]

\* files the widget refuses (no image type, too large) and a file the widget
\* takes and the server's filter refuses
OddFiles ==
  { [extname |-> <<".", "pdf">>, mimetype |-> <<"application", "/", "pdf">>, size |-> 1],
    [extname |-> <<".", "png">>, mimetype |-> <<"image", "/", "png">>,
     size |-> maxSizePerFile + 1],
    [extname |-> <<".", "webp">>, mimetype |-> <<"image", "/", "webp">>, size |-> 1] }

\* a selection or a drop of n files: images, the last of them possibly odd
SelectionsUpTo(n) ==
  UNION { { [i \in 1..k |-> Png] } \cup
          { [i \in 1..k |-> IF i = k THEN odd ELSE Png] : odd \in OddFiles } : k \in 1..n }

NoWidget == [status |-> 0, value |-> <<>>, inFlight |-> <<>>, event |-> [kind |-> "none"]]

\* uploadMutation.isPending puts pointer-events-none on the upload area, the
\* only element that opens the file dialog or takes a drop
UploadAreaEnabled == calc.inFlight = <<>>

\* the count test of handleFiles, left out
WithinMaxFilesAlways(files) == TRUE

\* handleFiles: value.length + fileArray.length > maxFiles returns early
WithinMaxFiles(files) == Len(calc.value) + Len(files) <= maxFiles

\* handleFiles: a file that is no image or is larger than maxSizePerFile MB
\* returns early
isValidSize(file) == file.size <= maxSizePerFile

handleFilesOk(files) ==
  /\ WithinMaxFiles(files)
  /\ \A i \in 1..Len(files) : isValidType(files[i]) /\ isValidSize(files[i])

\* handleFileInputChange and handleDrop: handleFiles(files) ends in
\* uploadMutation.mutate(files) or in a toast
handleFiles(selections) ==
  \E files \in selections :
    /\ UploadAreaEnabled
    /\ calc' = IF handleFilesOk(files)
                 THEN [calc EXCEPT !.inFlight = Append(@, files),
                                   !.event = [kind |-> "started", files |-> files]]
                 ELSE [calc EXCEPT !.event = [kind |-> "refused", files |-> files]]
    /\ UNCHANGED <<clients, artists, appointments, inventory, sales, now, last, session>>

\* the in-flight uploads without the k-th
Settled(k) == SubSeq(calc.inFlight, 1, k - 1) \o SubSeq(calc.inFlight, k + 1, Len(calc.inFlight))

\* the list with each URL once
WithoutRepeats(list) ==
  LET first == { i \in 1..Len(list) : \A j \in 1..(i - 1) : list[j] # list[i] }
      Rank(i) == Cardinality({ j \in first : j <= i })
  IN [r \in 1..Cardinality(first) |-> list[CHOOSE i \in first : Rank(i) = r]]

\* an onSuccess that keeps each URL once
onSuccessValueWithoutRepeats(urls) == WithoutRepeats(calc.value \o urls)

\* onSuccess: onChange([...value, ...data.urls]), value being the list the form
\* holds when the answer arrives
onSuccessValue(urls) == calc.value \o urls

\* the server took the files (POST /api/upload answers one URL per file, in the
\* order of the files) and uploadMutation's onSuccess ran
uploadOnSuccess ==
  \E k \in 1..Len(calc.inFlight) :
    LET files == calc.inFlight[k]
    IN /\ UploadAccepted(files)
       /\ \E suffix \in [1..Len(files) -> UrlSuffixes] :
            LET urls == [i \in 1..Len(files) |->
                           [path |-> "/uploads/files-", suffix |-> suffix[i],
                            extname |-> files[i].extname]]
            IN calc' = [calc EXCEPT !.value = onSuccessValue(urls),
                                    !.inFlight = Settled(k),
                                    !.event = [kind |-> "uploaded", urls |-> urls]]
       /\ UNCHANGED <<clients, artists, appointments, inventory, sales, now, last, session>>

\* the request failed (the server refused a file, or the network did) and
\* uploadMutation's onError ran
uploadOnError ==
  \E k \in 1..Len(calc.inFlight) :
    /\ calc' = [calc EXCEPT !.inFlight = Settled(k), !.event = [kind |-> "failed"]]
    /\ UNCHANGED <<clients, artists, appointments, inventory, sales, now, last, session>>

\* removeFile(index): value.filter((_, i) => i !== index)
removeFile ==
  \E index \in 1..Len(calc.value) :
    /\ calc' = [calc EXCEPT
                  !.value = SubSeq(@, 1, index - 1) \o SubSeq(@, index + 1, Len(@)),
                  !.event = [kind |-> "removed", index |-> index]]
    /\ UNCHANGED <<clients, artists, appointments, inventory, sales, now, last, session>>

InitWidget ==
  /\ clients = OneClient
  /\ artists = OneArtist
  /\ appointments = <<>>
  /\ inventory = <<>>
  /\ sales = <<>>
  /\ now = 0
  /\ last = NoResponse
  /\ calc = NoWidget
  /\ session = TRUE

NextWidget ==
  \/ handleFiles(SelectionsUpTo(maxFiles + MaxExtraFiles))
  \/ uploadOnSuccess
  \/ uploadOnError
  \/ removeFile

SpecWidget == InitWidget /\ [][NextWidget]_vars

\* AppointmentModal.onSubmit: the form's values with the referenceImages state
\* are posted; createAppointmentMutation's onSuccess empties the list
AppointmentModalSubmit ==
  LET body == [clientId |-> 1, artistId |-> 1, scheduledDate |-> now,
               status |-> "scheduled", referenceImages |-> calc.value]
      id == NewId(AppointmentIds, appointments)
  IN /\ appointments = <<>>
     /\ PostAppointmentOk(body)
     /\ appointments' = (id :> createAppointment(id, insertSchemaParse(body))) @@ appointments
     /\ last' = Answered("POST /api/appointments", body, 201,
                         createAppointment(id, insertSchemaParse(body)))
     /\ calc' = [calc EXCEPT !.value = <<>>, !.event = [kind |-> "submitted"]]
     /\ UNCHANGED <<clients, artists, inventory, sales, now, session>>

MaxSelected == 2

NextBooking ==
  \/ handleFiles(SelectionsUpTo(MaxSelected))
  \/ uploadOnSuccess
  \/ uploadOnError
  \/ removeFile
  \/ AppointmentModalSubmit
  \/ DeleteAppointment

SpecBooking == InitWidget /\ [][NextBooking]_vars

\* the step is an action of the given kind of the widget or of the form
WidgetDid(kind) == calc' # calc /\ calc'.event.kind = kind

\* C24: a completed upload leaves the previous list followed by the returned
\* URLs in their order, a removal leaves the previous list without the element
\* at the chosen index, and a submission stores the list as it stands
C24_ListKeepsOrder ==
  [][ /\ WidgetDid("uploaded") => calc'.value = calc.value \o calc'.event.urls
      /\ WidgetDid("removed") =>
           LET index == calc'.event.index
           IN /\ Len(calc'.value) = Len(calc.value) - 1
              /\ \A i \in 1..Len(calc'.value) :
                   calc'.value[i] = calc.value[IF i < index THEN i ELSE i + 1]
      /\ WidgetDid("submitted") =>
           \E id \in DOMAIN appointments' \ DOMAIN appointments :
             appointments'[id].referenceImages = calc.value
    ]_vars

\* an appointment is stored with a list that holds the same URL twice and a
\* third URL after them, submitted after a removal
C24_Witness ==
  /\ last.op = "POST /api/appointments"
  /\ last.status = 201
  /\ calc.event.kind = "submitted"
  /\ 1 \in DOMAIN appointments
  /\ Len(appointments[1].referenceImages) = 3
  /\ appointments[1].referenceImages[1] = appointments[1].referenceImages[2]
  /\ appointments[1].referenceImages[3] # appointments[1].referenceImages[2]

\* C30: the list never holds more than maxFiles URLs, at most one upload is in
\* flight, and a selection that with the list exceeds maxFiles, or that holds a
\* file that is no image or is larger than maxSizePerFile MB, starts no upload
\* and leaves the list as it is
C30_WidgetLimits ==
  /\ [](Len(calc.value) <= maxFiles /\ Len(calc.inFlight) <= 1)
  /\ [][ (calc' # calc /\ calc'.event.kind \in {"started", "refused"}) =>
           LET files == calc'.event.files
               exceeds == Len(calc.value) + Len(files) > maxFiles
               invalid == \E i \in 1..Len(files) :
                            \/ files[i].mimetype[1] # "image"
                            \/ files[i].mimetype[2] # "/"
                            \/ files[i].size > maxSizePerFile
           IN /\ calc'.value = calc.value
              /\ (exceeds \/ invalid) => calc'.inFlight = calc.inFlight
              /\ ~(exceeds \/ invalid) => calc'.inFlight = Append(calc.inFlight, files)
       ]_vars

\* a selection of two images was refused while the list held four URLs
C30_Witness ==
  /\ calc.event.kind = "refused"
  /\ Len(calc.value) = maxFiles - 1
  /\ Len(calc.event.files) = 2
  /\ \A i \in 1..2 : calc.event.files[i] = Png
  /\ calc.inFlight = <<>>

----------------------------------------------------------------------------
(* The artist form (ArtistModal): the list of specialties. A text is the
   sequence of its words and blanks; calc holds the form *)

Blank == " "

\* three of the commonSpecialties
commonSpecialties == {<<"Realism">>, <<"Dotwork">>, <<"Fine", Blank, "Line">>}

\* what the user may type into the field of the custom specialty
TypedSpecialties ==
  {<<>>, <<Blank>>, <<Blank, "Realism", Blank>>, <<"Tribal">>, <<"Fine", Blank, "Line">>}

RECURSIVE trimStart(_)
trimStart(text) ==
  IF text # <<>> /\ Head(text) = Blank THEN trimStart(Tail(text)) ELSE text

RECURSIVE trimEnd(_)
trimEnd(text) ==
  IF text # <<>> /\ text[Len(text)] = Blank
    THEN trimEnd(SubSeq(text, 1, Len(text) - 1))
    ELSE text

\* String.prototype.trim
trim(text) == trimEnd(trimStart(text))

\* specialties.filter(s => s !== specialty)
RECURSIVE Without(_, _)
Without(list, specialty) ==
  IF list = <<>>
    THEN <<>>
    ELSE IF Head(list) = specialty
           THEN Without(Tail(list), specialty)
           ELSE <<Head(list)>> \o Without(Tail(list), specialty)

includes(list, specialty) == \E i \in 1..Len(list) : list[i] = specialty

\* an addSpecialty that appends whatever it is given
addSpecialtyAlways(list, specialty) == Append(list, specialty)

\* addSpecialty: a non-empty specialty the list does not include is appended
addSpecialty(list, specialty) ==
  IF specialty # <<>> /\ ~includes(list, specialty) THEN Append(list, specialty) ELSE list

\* a click on one of the common specialties
AddCommonSpecialty ==
  \E specialty \in commonSpecialties :
    /\ calc' = [calc EXCEPT !.specialties = addSpecialty(@, specialty),
                            !.event = [kind |-> "add", specialty |-> specialty]]
    /\ UNCHANGED <<clients, artists, appointments, inventory, sales, now, last, session>>

\* typing into the field of the custom specialty
setNewSpecialty ==
  \E text \in TypedSpecialties :
    /\ calc' = [calc EXCEPT !.newSpecialty = text, !.event = [kind |-> "typed"]]
    /\ UNCHANGED <<clients, artists, appointments, inventory, sales, now, last, session>>

\* handleAddCustomSpecialty: a field that is not blank is trimmed, added and
\* emptied
handleAddCustomSpecialty ==
  /\ calc' = IF trim(calc.newSpecialty) # <<>>
               THEN [calc EXCEPT
                       !.specialties = addSpecialty(@, trim(calc.newSpecialty)),
                       !.newSpecialty = <<>>,
                       !.event = [kind |-> "add", specialty |-> trim(calc.newSpecialty)]]
               ELSE [calc EXCEPT !.event = [kind |-> "add", specialty |-> <<>>]]
  /\ UNCHANGED <<clients, artists, appointments, inventory, sales, now, last, session>>

\* the X of a specialty's badge
removeSpecialty ==
  \E i \in 1..Len(calc.specialties) :
    /\ calc' = [calc EXCEPT !.specialties = Without(@, calc.specialties[i]),
                            !.event = [kind |-> "remove", specialty |-> calc.specialties[i]]]
    /\ UNCHANGED <<clients, artists, appointments, inventory, sales, now, last, session>>

\* the form opens with the specialties of an artist, or with none
InitSpecialties ==
  /\ clients = <<>>
  /\ artists = <<>>
  /\ appointments = <<>>
  /\ inventory = <<>>
  /\ sales = <<>>
  /\ now = 0
  /\ last = NoResponse
  /\ calc \in { [status |-> 0, specialties |-> list, newSpecialty |-> <<>>,
                 event |-> [kind |-> "none"]] : list \in {<<>>, <<<<"Tribal">>, <<"Realism">>>>} }
  /\ session = TRUE

NextSpecialties ==
  \/ AddCommonSpecialty
  \/ setNewSpecialty
  \/ handleAddCustomSpecialty
  \/ removeSpecialty

SpecSpecialties == InitSpecialties /\ [][NextSpecialties]_vars

\* list holds the entries of whole in the order they have there
RECURSIVE KeepsOrderOf(_, _)
KeepsOrderOf(list, whole) ==
  \/ list = <<>>
  \/ /\ whole # <<>>
     /\ \/ Head(list) = Head(whole) /\ KeepsOrderOf(Tail(list), Tail(whole))
        \/ KeepsOrderOf(list, Tail(whole))

\* C25: the list of specialties holds no entry twice; adding an empty or an
\* included specialty leaves it as it is and adding another one appends it;
\* removing a specialty leaves the other entries in their order
C25_SpecialtiesDistinct ==
  /\ [](\A i, j \in 1..Len(calc.specialties) :
          calc.specialties[i] = calc.specialties[j] => i = j)
  /\ [][ /\ (calc' # calc /\ calc'.event.kind = "add") =>
              LET specialty == calc'.event.specialty
              IN calc'.specialties =
                   IF specialty = <<>> \/ \E i \in 1..Len(calc.specialties) :
                                            calc.specialties[i] = specialty
                     THEN calc.specialties
                     ELSE calc.specialties \o <<specialty>>
         /\ (calc' # calc /\ calc'.event.kind = "remove") =>
              /\ KeepsOrderOf(calc'.specialties, calc.specialties)
              /\ Len(calc'.specialties) = Len(calc.specialties) - 1
              /\ \A i \in 1..Len(calc'.specialties) :
                   calc'.specialties[i] # calc'.event.specialty
       ]_vars

\* a specialty the list includes was typed with blanks around it and added:
\* the field is emptied and the list holds the specialty once
C25_Witness ==
  /\ calc.event.kind = "add"
  /\ calc.event.specialty = <<"Realism">>
  /\ calc.newSpecialty = <<>>
  /\ calc.specialties = <<<<"Realism">>, <<"Fine", Blank, "Line">>>>

----------------------------------------------------------------------------
(* Two edit dialogs of the same sale, in two browsers. calc holds the two
   forms: closed, open with the values read from the stored sale, or done *)

Editors == {1, 2}

\* a sale recorded through the form
FirstSale ==
  (1 :> [id |-> 1, clientId |-> 1, artistId |-> 1, totalAmount |-> MaxAmount,
         deposit |-> 0, remainingBalance |-> MaxAmount, paymentStatus |-> "pending",
         saleDate |-> 0])

\* what a user changes in the form: the deposit or the total
SaleEdits ==
  { [deposit |-> d] : d \in Amounts } \cup { [totalAmount |-> t] : t \in Amounts }

\* useForm's defaultValues of the edit dialog: the values of the sale
SaleFormOf(sale) ==
  [clientId |-> sale.clientId, artistId |-> sale.artistId,
   totalAmount |-> sale.totalAmount, deposit |-> sale.deposit,
   remainingBalance |-> sale.remainingBalance, paymentStatus |-> sale.paymentStatus]

ClosedForms == [e \in Editors |-> [phase |-> "closed"]]

\* the dialog opens on the stored sale
SaleModalOpen ==
  \E e \in Editors :
    /\ calc.forms[e].phase = "closed"
    /\ 1 \in DOMAIN sales
    /\ calc' = [calc EXCEPT !.forms[e] = [phase |-> "open", data |-> SaleFormOf(sales[1])]]
    /\ UNCHANGED <<clients, artists, appointments, inventory, sales, now, last, session>>

\* the user changes one field and submits: mutationFn computes the balance from
\* the form's values and the payload is sent to PATCH /api/sales/:id, whose
\* update is one statement
SaleModalSave ==
  \E e \in Editors, edit \in SaleEdits :
    /\ calc.forms[e].phase = "open"
    /\ LET payload == mutationFn(Merge(calc.forms[e].data, edit))
       IN /\ sales' = PatchSaleTable(1, payload)
          /\ last' = PatchSaleResponse(1, payload)
          /\ calc' = [calc EXCEPT !.forms[e] = [phase |-> "done", edit |-> edit]]
    /\ UNCHANGED <<clients, artists, appointments, inventory, now, session>>

InitSaleEdits ==
  /\ clients = OneClient
  /\ artists = OneArtist
  /\ appointments = <<>>
  /\ inventory = <<>>
  /\ sales = FirstSale
  /\ now = 0
  /\ last = NoResponse
  /\ calc = [status |-> 0, forms |-> ClosedForms]
  /\ session = TRUE

NextSaleEdits == SaleModalOpen \/ SaleModalSave

SpecSaleEdits == InitSaleEdits /\ [][NextSaleEdits]_vars

\* the sale after one edit made on it and saved
EditedSale(sale, edit) == updateSale(sale, mutationFn(Merge(SaleFormOf(sale), edit)))

----------------------------------------------------------------------------
(* The clients page and its dialog. The page renders one ClientModal for its
   whole life and hands it the selected client; useForm takes its defaultValues
   when the dialog is mounted, which is when the page is, with no client
   selected. calc holds the page: selectedClient is 0 for undefined, form the
   values of the form and touched whether a field was typed into since the
   dialog was opened *)

\* the page after it is mounted: the dialog closed, the form at the
\* defaultValues of a dialog without a client
ClientsPage ==
  [status |-> 0, isModalOpen |-> FALSE, selectedClient |-> 0,
   form |-> ClientFormDefaults, touched |-> FALSE, event |-> [kind |-> "none"]]

\* the defaultValues are read once: opening the dialog with a client leaves the
\* values of the form as they are
FormWhenOpened(form, client) == form

\* the Add Client button: setIsModalOpen(true)
OpenCreate ==
  /\ ~calc.isModalOpen
  /\ calc' = [calc EXCEPT !.isModalOpen = TRUE, !.touched = FALSE,
                          !.event = [kind |-> "opened"]]
  /\ UNCHANGED <<clients, artists, appointments, inventory, sales, now, last, session>>

\* handleEdit(client): setSelectedClient(client), setIsModalOpen(true)
handleEdit ==
  \E id \in DOMAIN clients :
    /\ ~calc.isModalOpen
    /\ calc' = [calc EXCEPT !.isModalOpen = TRUE, !.selectedClient = id,
                            !.form = FormWhenOpened(@, clients[id]),
                            !.touched = FALSE, !.event = [kind |-> "opened"]]
    /\ UNCHANGED <<clients, artists, appointments, inventory, sales, now, last, session>>

\* handleCloseModal: setIsModalOpen(false), setSelectedClient(undefined)
handleCloseModal ==
  /\ calc.isModalOpen
  /\ calc' = [calc EXCEPT !.isModalOpen = FALSE, !.selectedClient = 0,
                          !.event = [kind |-> "closed"]]
  /\ UNCHANGED <<clients, artists, appointments, inventory, sales, now, last, session>>

\* the user types a first name
TypeFirstName ==
  \E text \in {"Cy"} :
    /\ calc.isModalOpen
    /\ calc' = [calc EXCEPT !.form.firstName = text, !.touched = TRUE,
                            !.event = [kind |-> "typed"]]
    /\ UNCHANGED <<clients, artists, appointments, inventory, sales, now, last, session>>

\* PATCH /api/clients/:id with the body given: whether the update passes the
\* unique constraint on email
PatchClientOk(id, body) ==
  Has(body, "email") =>
    \A c \in DOMAIN clients \ {id} : Has(clients[c], "email") => clients[c].email # body.email

\* onSubmit: the values of the form are sent to PATCH /api/clients/:id when a
\* client is selected and to POST /api/clients otherwise; onSuccess closes the
\* dialog and resets the form to its defaultValues
ClientModalSave ==
  LET data == calc.form
      id == calc.selectedClient
      done == [calc EXCEPT !.isModalOpen = FALSE, !.selectedClient = 0,
                           !.form = ClientFormDefaults,
                           !.event = [kind |-> "saved", id |-> id, payload |-> data,
                                      touched |-> calc.touched]]
      failed == [calc EXCEPT !.event = [kind |-> "failed"]]
  IN /\ calc.isModalOpen
     /\ IF id = 0
          THEN /\ DOMAIN clients # ClientIds
               /\ PostClientAnswer(data)
               /\ calc' = IF last'.status = 201 THEN done ELSE failed
          ELSE IF id \in DOMAIN clients /\ PatchClientOk(id, data)
                 THEN /\ clients' = [clients EXCEPT ![id] = updateClient(clients[id], data)]
                      /\ last' = Answered("PATCH /api/clients", [id |-> id], 200,
                                          updateClient(clients[id], data))
                      /\ calc' = done
                 ELSE /\ clients' = clients
                      /\ last' = Answered("PATCH /api/clients", [id |-> id],
                                          IF id \in DOMAIN clients THEN 400 ELSE 200, NoBody)
                      /\ calc' = IF id \in DOMAIN clients THEN failed ELSE done
     /\ UNCHANGED <<artists, appointments, inventory, sales, now, session>>

InitClientsPage ==
  /\ clients = (1 :> [id |-> 1, firstName |-> "Ada", lastName |-> "Lee", email |-> "ada@x"])
  /\ artists = <<>>
  /\ appointments = <<>>
  /\ inventory = <<>>
  /\ sales = <<>>
  /\ now = 0
  /\ last = NoResponse
  /\ calc = ClientsPage
  /\ session = TRUE

NextClientsPage ==
  \/ OpenCreate
  \/ handleEdit
  \/ handleCloseModal
  \/ TypeFirstName
  \/ ClientModalSave
  \/ DeleteClient

SpecClientsPage == InitClientsPage /\ [][NextClientsPage]_vars

\* C27: an edit dialog saved without a field typed into sends the stored
\* values of the client and leaves the client as it was
C27_UntouchedEditKeeps ==
  [][ (/\ calc' # calc
       /\ calc'.event.kind = "saved"
       /\ calc'.event.id \in DOMAIN clients
       /\ ~calc'.event.touched) =>
        LET id == calc'.event.id
            payload == calc'.event.payload
        IN /\ payload.firstName = clients[id].firstName
           /\ payload.lastName = clients[id].lastName
           /\ clients'[id] = clients[id]
    ]_vars

----------------------------------------------------------------------------
(* The query cache of the browser. calc holds the cached answer of
   /api/dashboard/stats (Null: not fetched), whether the query is invalidated,
   and the last response whose onSuccess has run *)

NoCache == [status |-> 0, stats |-> Null, invalidated |-> FALSE, settled |-> NoResponse]

\* the requests whose mutation invalidates ["/api/dashboard/stats"] in its
\* onSuccess: AppointmentModal, ArtistModal, SaleModal, and the delete
\* mutations of the sales and inventory pages
InvalidatesStats ==
  {"POST /api/appointments", "POST /api/artists", "PATCH /api/artists",
   "POST /api/sales", "PATCH /api/sales", "DELETE /api/sales", "DELETE /api/inventory"}

\* the browser sends a request once the response before it is dealt with
Requesting(Request) == calc.settled = last /\ Request

\* useQuery fetches when it has no data or the query is invalidated
FetchStats ==
  /\ calc.stats = Null \/ calc.invalidated
  /\ Requesting(GetDashboardStats)

\* the response arrives: the query stores its data, a mutation that succeeded
\* runs its onSuccess
Settle ==
  /\ calc.settled # last
  /\ calc' =
       IF last.op = "GET /api/dashboard/stats"
         THEN [calc EXCEPT !.stats = last.body, !.invalidated = FALSE, !.settled = last]
         ELSE IF last.status \in {200, 201, 204} /\ last.op \in InvalidatesStats
                THEN [calc EXCEPT !.invalidated = TRUE, !.settled = last]
                ELSE [calc EXCEPT !.settled = last]
  /\ UNCHANGED <<clients, artists, appointments, inventory, sales, now, last, session>>

InitCache ==
  /\ clients = OneClient
  /\ artists = OneArtist
  /\ appointments = <<>>
  /\ inventory = <<>>
  /\ sales = <<>>
  /\ now = 0
  /\ last = NoResponse
  /\ calc = NoCache
  /\ session = TRUE

NextCache ==
  \/ FetchStats
  \/ Settle
  \/ Requesting(PostArtist)
  \/ Requesting(PatchArtist)
  \/ Requesting(DeleteArtist)
  \/ Requesting(PostAppointment({[clientId |-> 1, artistId |-> 1, scheduledDate |-> 0]}))
  \/ Requesting(DeleteAppointment)

SpecCache == InitCache /\ [][NextCache]_vars

\* C28: once the response of a mutation is dealt with, a cached answer of
\* /api/dashboard/stats that is not invalidated is the answer the server gives
C28_StatsInvalidated ==
  (calc.settled = last /\ calc.stats # Null /\ ~calc.invalidated) =>
    calc.stats = getDashboardStats(now)

----------------------------------------------------------------------------
(* Today's schedule: the appointments of one calendar day *)

\* the ids of the appointments in the order of .orderBy(asc(scheduledDate))
OrderedByScheduledDate(ids) ==
  CHOOSE order \in [1..Cardinality(ids) -> ids] :
    /\ \A i, j \in 1..Cardinality(ids) : i # j => order[i] # order[j]
    /\ \A i, j \in 1..Cardinality(ids) :
         i < j => appointments[order[i]].scheduledDate <= appointments[order[j]].scheduledDate

\* getAppointmentsByDate: scheduled_date >= startOfDay and <= endOfDay, where
\* endOfDay is 23:59:59.999 of the day, the last instant before the first tick
\* of the next day
getAppointmentsByDate(date) ==
  LET startOfDay == StartOfDay(date)
      endOfDay == StartOfDay(date) + TicksPerDay - 1
      ids == { a \in DOMAIN appointments :
                 /\ appointments[a].scheduledDate >= startOfDay
                 /\ appointments[a].scheduledDate <= endOfDay }
      order == OrderedByScheduledDate(ids)
  IN [i \in 1..Cardinality(ids) |-> AppointmentWithRelations(appointments[order[i]])]

\* GET /api/appointments?date=: the dashboard asks for the day of its clock
GetAppointmentsByDate ==
  /\ last' = Answered("GET /api/appointments?date", [date |-> now], 200,
                      [list |-> getAppointmentsByDate(now)])
  /\ UNCHANGED <<clients, artists, appointments, inventory, sales, now, calc, session>>

NextSchedule ==
  \/ PostAppointmentUpTo(ScheduledBodies, MaxAppointments)
  \/ DeleteAppointment
  \/ Tick
  \/ GetAppointmentsByDate
  \/ GetDashboardStats

SpecSchedule == InitStudio /\ [][NextSchedule]_vars

\* the list answered for a day is in ascending order of scheduledDate
ScheduleAscending ==
  last.op = "GET /api/appointments?date" =>
    \A i, j \in 1..Len(last.body.list) :
      i < j => last.body.list[i].scheduledDate <= last.body.list[j].scheduledDate

\* C29: the list answered for a day has as many appointments as the dashboard
\* counts for that day, and is in ascending order of scheduledDate
C29_CountIsLengthOfList ==
  /\ last.op = "GET /api/appointments?date" =>
       Len(last.body.list) = getDashboardStats(last.request.date).todayAppointments
  /\ ScheduleAscending

====
